---- MODULE Spec2Model ----
(***************************************************************************)
(* State-machine model of the DDPG and MPO training orchestrators of       *)
(* rl_pro_telu (src/ddpg/ddpg.py, src/mpo/mpo.py).                         *)
(*                                                                         *)
(* One object is modelled at a time: Init chooses the class (algo) and the *)
(* constructor arguments, the constructor body runs as the first actions,  *)
(* and from "idle" the public methods are called in any order.  A method   *)
(* runs as a sequence of actions, one per statement group, pc being the    *)
(* position in the method's code.                                          *)
(*                                                                         *)
(* The networks, the optimizers, the environment, the replay buffer and    *)
(* the noise process are collaborators whose code is not in the            *)
(* repository's src/: a network is its parameter vector, an optimizer      *)
(* step moves every parameter the optimizer was constructed over, the      *)
(* environment answers step() with any done flag.                          *)
(*                                                                         *)
(* Numbers: parameters and actions are exact rationals <<n, d>> (d > 0,    *)
(* lowest terms).  The values used are small dyadic or small-denominator   *)
(* rationals, for which the float arithmetic of the code is exact or       *)
(* within rounding of the rational result.                                 *)
(***************************************************************************)
EXTENDS Integers, Sequences, FiniteSets, TLC

\* ------------------------------------------------------------------ bounds
\* Total number of environment steps train/eval may take over the life of
\* the object (the constructor's pre-fill is not counted).
MaxSteps == 4

\* Number of parameters of each network.
NParams == 2

\* ---------------------------------------------------------------- rationals
RECURSIVE GCD(_, _)
GCD(a, b) ==
    IF b = 0 THEN a ELSE GCD(b, a % b)

Abs(x) ==
    IF x < 0 THEN -x ELSE x

Norm(n, d) ==
    LET g == GCD(Abs(n), d) IN <<n \div g, d \div g>>

RInt(i) ==
    <<i, 1>>

RAdd(x, y) ==
    Norm(x[1] * y[2] + y[1] * x[2], x[2] * y[2])

RMul(x, y) ==
    Norm(x[1] * y[1], x[2] * y[2])

RNeg(x) ==
    <<-x[1], x[2]>>

RLe(x, y) ==
    x[1] * y[2] <= y[1] * x[2]

RECURSIVE RSum(_)
RSum(s) ==
    IF s = <<>> THEN RInt(0) ELSE RAdd(Head(s), RSum(Tail(s)))

\* ------------------------------------------------------- constructor inputs
\* The DDPG constructor's arguments: tau (0, 1/4, 1/2 and 1), batch_size,
\* buffer_capacity, and the environment's action bound
\* env.action_space.high[0], a positive number.
DDPGConfigs ==
    { [tau |-> <<0, 1>>, batch_size |-> 0, capacity |-> 1, action_range |-> 1],
      [tau |-> <<1, 4>>, batch_size |-> 1, capacity |-> 3, action_range |-> 2],
      [tau |-> <<1, 2>>, batch_size |-> 2, capacity |-> 3, action_range |-> 2],
      [tau |-> <<1, 1>>, batch_size |-> 2, capacity |-> 1, action_range |-> 1] }

\* Values one noise.iteration() can return.
NoiseVals == {-1, 1}

\* -------------------------------------------------------------------- state
VARIABLES
    algo,           \* "ddpg" or "mpo": the class of the object
    pc,             \* position in the running method, "idle" between calls
    op,             \* the running method
    raised,         \* the exception the running method ended with, or "none"
    actor,          \* self.actor parameters
    target_actor,   \* self.target_actor parameters
    critic,         \* self.critic parameters
    target_critic,  \* self.target_critic parameters
    actor_optimizer,    \* state of self.actor_optimizer (steps taken)
    critic_optimizer,   \* state of self.critic_optimizer (steps taken)
    tau,            \* self.tau
    batch_size,     \* self.batch_size
    action_range,   \* self.action_range
    noise,          \* self.noise: the current value x of the process
    buffer,         \* self.buffer: [size: stored transitions, capacity]
    env,            \* the environment: [done: last step ended it, n: serial
                    \* of the last observation it returned in this call]
    self_episode,   \* self.episode
    disk,           \* the checkpoint file: [exists, epoch, ...]
    ep, it, log_f, sf,      \* train's resolved arguments
    episode, t,             \* train's/eval's loop variables
    iteration,      \* train's local: [bound: assigned yet, v: value]
    observation,    \* local observation
    new_observation,    \* local new_observation
    done,           \* local done
    action,         \* local action
    y,              \* train's local y, the TD target
    eta, eta_mu, eta_sigma,     \* MPO: self.\eta, self.\eta_\mu, self.\eta_\Sigma
    mb_size, rerun_mb, lagrange_it, sample_episodes,    \* MPO: self.*
    states, actions, rewards, next_states,  \* _sample_trajectory's batches
    dones,          \* the done flag of the step behind each batch entry
    se,             \* _sample_trajectory's episode loop variable
    rr, order, mb, lag,     \* MPO.train: rerun pass, its minibatches (index
                    \* sequences), the running minibatch, the M-step count
    cnt,            \* calls made by the running method, by collaborator
    ops,            \* calls made in the running episode, in order
    steps_left,     \* environment steps train/eval may still take
    hist            \* history: [trained: episodes of training behind the
                    \* object's parameters, file_by_train: the checkpoint file
                    \* was written by train, file_trained: episodes of
                    \* training behind the file's parameters]

nets == <<actor, target_actor, critic, target_critic>>
opts == <<actor_optimizer, critic_optimizer>>
hyper == <<algo, tau, batch_size, action_range>>
args == <<ep, it, log_f, sf>>
loops == <<episode, t>>
ddpgVars == <<noise, buffer>>
locals == <<observation, new_observation, done, action, y>>
multipliers == <<eta, eta_mu, eta_sigma>>
mpoHyper == <<mb_size, rerun_mb, lagrange_it, sample_episodes>>
batches == <<states, actions, rewards, next_states, dones, se>>
mpoLoops == <<rr, order, mb, lag>>
mpoVars == <<multipliers, mpoHyper, batches, mpoLoops>>

vars == <<pc, op, raised, nets, opts, hyper, ddpgVars, env, self_episode, disk,
          args, loops, iteration, locals, mpoVars, cnt, ops, steps_left,
          hist>>

\* ----------------------------------------------------------- collaborators
NoObs == [kind |-> "none", n |-> 0]

ZeroCnt ==
    [env_step |-> 0, env_reset |-> 0, push |-> 0, sample |-> 0,
     noise_reset |-> 0, noise_iteration |-> 0,
     critic_step |-> 0, actor_step |-> 0, soft_update |-> 0,
     dual |-> 0, multiplier_update |-> 0, update_param |-> 0]

Count(c, what) ==
    [c EXCEPT ![what] = @ + 1]

\* env.reset(): a fresh observation; the environment is no longer done.
EnvReset(e) ==
    [done |-> FALSE, n |-> e.n + 1]

ResetObs(e) ==
    [kind |-> "reset", n |-> e.n + 1]

\* env.step(action): the next observation and the done flag d the
\* environment chooses.
EnvStep(e, d) ==
    [done |-> d, n |-> e.n + 1]

StepObs(e) ==
    [kind |-> "step", n |-> e.n + 1]

\* A network's forward pass: some function of its parameters and its input.
Forward(params, obs) ==
    RAdd(RSum(params), RInt(obs.n))

\* optimizer.step(): every parameter the optimizer was constructed over
\* moves by the (opaque) gradient step.
OptimizerStep(params) ==
    [i \in 1..Len(params) |-> RAdd(params[i], RInt(1))]

\* ReplayBuffer.push: a ring, the oldest transition is overwritten when full.
BufferPush(b) ==
    [b EXCEPT !.size = IF @ < b.capacity THEN @ + 1 ELSE b.capacity]

\* np.clip(a, a_min, a_max)
Clip(a, lo, hi) ==
    IF RLe(a, lo) THEN lo ELSE IF RLe(hi, a) THEN hi ELSE a

\* The state dicts save_model writes.
Checkpoint(epoch) ==
    [exists |-> TRUE, epoch |-> epoch,
     critic |-> critic, target_critic |-> target_critic,
     actor |-> actor, target_actor |-> target_actor,
     critic_optim |-> critic_optimizer, actor_optim |-> actor_optimizer]

NoFile ==
    [exists |-> FALSE, epoch |-> 0,
     critic |-> <<>>, target_critic |-> <<>>,
     actor |-> <<>>, target_actor |-> <<>>,
     critic_optim |-> 0, actor_optim |-> 0]

\* No episode trained, no file written.
NoHistory ==
    [trained |-> 0, file_by_train |-> FALSE, file_trained |-> 0]

\* Locals of a method that is not running.
NoLocals ==
    /\ ep' = 0 /\ it' = 0 /\ log_f' = FALSE /\ sf' = FALSE
    /\ episode' = 0 /\ t' = 0
    /\ iteration' = [bound |-> FALSE, v |-> 0]
    /\ observation' = NoObs
    /\ new_observation' = NoObs
    /\ done' = FALSE
    /\ action' = RInt(0)
    /\ y' = RInt(0)
    /\ states' = <<>> /\ actions' = <<>> /\ rewards' = <<>>
    /\ next_states' = <<>> /\ dones' = <<>> /\ se' = 0
    /\ rr' = 0 /\ order' = <<>> /\ mb' = 0 /\ lag' = 0

\* A method ends: normally, or with the exception e.
Finish(e) ==
    /\ pc' = "done"
    /\ raised' = e

\* ======================================================================
\*                                DDPG
\* ======================================================================

\* The object at the start of the constructor's parameter copy (ddpg.py:66):
\* the four networks are freshly and independently initialised, the
\* optimizers are constructed.
InitDDPG ==
    /\ algo = "ddpg"
    /\ pc = "ctor_copy" /\ op = "__init__" /\ raised = "none"
    /\ actor = [i \in 1..NParams |-> RInt(-i)]
    /\ target_actor = [i \in 1..NParams |-> RInt(i)]
    /\ critic = [i \in 1..NParams |-> RInt(NParams + i)]
    /\ target_critic = [i \in 1..NParams |-> RInt(-NParams - i)]
    /\ actor_optimizer = 0 /\ critic_optimizer = 0
    /\ \E c \in DDPGConfigs :
          /\ tau = c.tau
          /\ batch_size = c.batch_size
          /\ action_range = c.action_range
          /\ buffer = [size |-> 0, capacity |-> c.capacity]
    /\ noise = 0
    /\ env = [done |-> FALSE, n |-> 0]
    /\ self_episode = 0
    /\ disk = NoFile
    /\ ep = 0 /\ it = 0 /\ log_f = FALSE /\ sf = FALSE
    /\ episode = 0 /\ t = 0
    /\ iteration = [bound |-> FALSE, v |-> 0]
    /\ observation = NoObs /\ new_observation = NoObs /\ done = FALSE
    /\ action = RInt(0) /\ y = RInt(0)
    /\ eta = RInt(0) /\ eta_mu = RInt(0) /\ eta_sigma = RInt(0)
    /\ mb_size = 0 /\ rerun_mb = 0 /\ lagrange_it = 0 /\ sample_episodes = 0
    /\ states = <<>> /\ actions = <<>> /\ rewards = <<>>
    /\ next_states = <<>> /\ dones = <<>> /\ se = 0
    /\ rr = 0 /\ order = <<>> /\ mb = 0 /\ lag = 0
    /\ cnt = ZeroCnt
    /\ ops = <<>>
    /\ steps_left = MaxSteps
    /\ hist = NoHistory

\* ddpg.py:66-74: the targets are hard-copied from the live networks.
DDPG_HardCopy ==
    /\ algo = "ddpg" /\ pc = "ctor_copy"
    /\ target_actor' = actor
    /\ target_critic' = critic
    /\ pc' = "rt_reset"
    /\ UNCHANGED <<hist, mpoVars, op, raised, actor, critic, opts, hyper, ddpgVars, env,
                   self_episode, disk, args, loops, iteration, locals, cnt,
                   ops, steps_left>>

\* ddpg.py:89-90: _random_trajectory(self.batch_size) starts.
DDPG_RandomTrajectoryReset ==
    /\ algo = "ddpg" /\ pc = "rt_reset"
    /\ observation' = ResetObs(env)
    /\ env' = EnvReset(env)
    /\ cnt' = Count(cnt, "env_reset")
    /\ t' = 0
    /\ pc' = IF 0 < batch_size THEN "rt_step" ELSE "ctor_end"
    /\ UNCHANGED <<hist, mpoVars, op, raised, nets, opts, hyper, ddpgVars, self_episode,
                   disk, args, episode, iteration, new_observation, done,
                   action, y, ops, steps_left>>

\* ddpg.py:91-96: one random transition; the environment is reset when it
\* reports done.
RandomTrajectoryStep(a, d) ==
    /\ action' = a
    /\ done' = d
    /\ new_observation' = StepObs(env)
    /\ buffer' = BufferPush(buffer)
    /\ observation' = IF d THEN ResetObs(EnvStep(env, d)) ELSE StepObs(env)
    /\ env' = IF d THEN EnvReset(EnvStep(env, d)) ELSE EnvStep(env, d)
    /\ cnt' = LET c == Count(Count(cnt, "env_step"), "push")
              IN IF d THEN Count(c, "env_reset") ELSE c
    /\ t' = t + 1
    /\ pc' = IF t + 1 < batch_size THEN "rt_step" ELSE "ctor_end"

DDPG_RandomTrajectoryStep ==
    /\ algo = "ddpg" /\ pc = "rt_step"
    /\ \E a \in {RInt(-action_range), RInt(action_range)}, d \in BOOLEAN :
          RandomTrajectoryStep(a, d)
    /\ UNCHANGED <<hist, mpoVars, op, raised, nets, opts, hyper, noise, self_episode, disk,
                   args, episode, iteration, y, ops, steps_left>>

\* ddpg.py:77-82: the control variables; the constructor returns.
DDPG_CtorFinish ==
    /\ algo = "ddpg" /\ pc = "ctor_end"
    /\ self_episode' = 0
    /\ Finish("none")
    /\ UNCHANGED <<hist, mpoVars, op, nets, opts, hyper, ddpgVars, env, disk, args, loops,
                   iteration, locals, cnt, ops, steps_left>>

\* The running method has returned (or raised) to the caller.
Return ==
    /\ pc = "done"
    /\ pc' = "idle" /\ op' = "none" /\ raised' = "none"
    /\ NoLocals
    /\ cnt' = ZeroCnt
    /\ ops' = <<>>
    /\ env' = [env EXCEPT !.n = 0]
    /\ UNCHANGED <<hist, nets, opts, hyper, ddpgVars, self_episode, disk,
                   multipliers, mpoHyper, steps_left>>

\* _select_action with the conditional binding only the noise term:
\*   a = a + (self.noise.iteration() if train else self.target_actor(obs))
SelectAction_NoiseOnlyConditional(obs, train, w) ==
    LET a0 == Forward(actor, obs)
        a1 == RAdd(a0, IF train THEN RInt(w) ELSE Forward(target_actor, obs))
        a2 == RMul(a1, RInt(action_range))
    IN  [a |-> Clip(a2, RInt(-action_range), RInt(action_range)),
         noise |-> IF train THEN w ELSE noise,
         iterations |-> IF train THEN 1 ELSE 0]

\* _select_action clipping before it scales.
SelectAction_ClipFirst(obs, train, w) ==
    LET a0 == Forward(actor, obs)
        a1 == IF train THEN RAdd(a0, RInt(w)) ELSE Forward(target_actor, obs)
        a2 == Clip(a1, RInt(-action_range), RInt(action_range))
    IN  [a |-> RMul(a2, RInt(action_range)),
         noise |-> IF train THEN w ELSE noise,
         iterations |-> IF train THEN 1 ELSE 0]

\* ddpg.py:98-112 _select_action(observation, train); w is what
\* noise.iteration() returns if it is called.  The result is the action,
\* the noise process afterwards and the number of iteration() calls made.
\*   a = self.actor(obs)
\*   a = (a + self.noise.iteration()) if train else self.target_actor(obs)
\*   a = a * self.action_range ; a = np.clip(a, -range, range)
SelectAction(obs, train, w) ==
    LET a0 == Forward(actor, obs)
        a1 == IF train THEN RAdd(a0, RInt(w)) ELSE Forward(target_actor, obs)
        a2 == RMul(a1, RInt(action_range))
    IN  [a |-> Clip(a2, RInt(-action_range), RInt(action_range)),
         noise |-> IF train THEN w ELSE noise,
         iterations |-> IF train THEN 1 ELSE 0]

\* _soft_update with the two weights exchanged.
SoftUpdate_WeightsSwapped(target, source) ==
    [i \in 1..(IF Len(target) < Len(source) THEN Len(target) ELSE Len(source)) |->
        RAdd(RMul(target[i], tau), RMul(source[i], RAdd(RInt(1), RNeg(tau))))]

\* ddpg.py:132-138: target <- target * (1 - tau) + param * tau, parameter
\* by parameter over zip(target, source).
SoftUpdate(target, source) ==
    [i \in 1..(IF Len(target) < Len(source) THEN Len(target) ELSE Len(source)) |->
        RAdd(RMul(target[i], RAdd(RInt(1), RNeg(tau))), RMul(source[i], tau))]

\* ddpg.py:196: y = reward + gamma * target_critic(s', target_actor(s')).
TDTarget(obs) ==
    RAdd(RSum(target_critic), Forward(target_actor, obs))

\* range(1, it + 1): the step that follows step number n of an episode.
StepAfter(n) ==
    IF n + 1 <= it THEN "log_check" ELSE "ep_tail"

\* range(0, ep): what follows episode number e.
EpisodeAfter(e) ==
    IF e + 1 < ep THEN "noise_reset" ELSE "train_end"

\* ddpg.py:140-164: train(episodes=e, episode_length=i, log=lg, save=s).
\* The logging locals are assigned only when logging is on.
DDPG_Train ==
    /\ algo = "ddpg" /\ pc = "idle"
    /\ \E e \in 1..MaxSteps, i \in 1..MaxSteps, lg \in BOOLEAN, s \in BOOLEAN :
          /\ e * i <= steps_left
          /\ ep' = e /\ it' = i /\ log_f' = lg /\ sf' = s
          /\ iteration' = [bound |-> lg, v |-> 0]
          /\ pc' = IF 0 < e THEN "noise_reset" ELSE "train_end"
    /\ op' = "train"
    /\ episode' = 0 /\ t' = 0
    /\ UNCHANGED <<hist, mpoVars, raised, nets, opts, hyper, ddpgVars, env, self_episode,
                   disk, locals, cnt, ops, steps_left>>

\* ddpg.py:167
DDPG_NoiseReset ==
    /\ algo = "ddpg" /\ pc = "noise_reset"
    /\ noise' = 0
    /\ cnt' = Count(cnt, "noise_reset")
    /\ ops' = Append(ops, "noise.reset")
    /\ pc' = "env_reset"
    /\ UNCHANGED <<hist, mpoVars, op, raised, nets, opts, hyper, buffer, env, self_episode,
                   disk, args, loops, iteration, locals, steps_left>>

\* ddpg.py:168, 170
DDPG_EnvReset ==
    /\ algo = "ddpg" /\ pc = "env_reset"
    /\ observation' = ResetObs(env)
    /\ env' = EnvReset(env)
    /\ cnt' = Count(cnt, "env_reset")
    /\ ops' = Append(ops, "env.reset")
    /\ t' = 1
    /\ pc' = StepAfter(0)
    /\ UNCHANGED <<hist, mpoVars, op, raised, nets, opts, hyper, ddpgVars, self_episode,
                   disk, args, episode, iteration, new_observation, done,
                   action, y, steps_left>>

\* ddpg.py:172-175: iteration is read; it is unbound when logging is off.
DDPG_LogCheck ==
    /\ algo = "ddpg" /\ pc = "log_check"
    /\ IF iteration.bound
       THEN /\ pc' = "select"
            /\ UNCHANGED raised
       ELSE Finish("UnboundLocalError")
    /\ UNCHANGED <<hist, mpoVars, op, nets, opts, hyper, ddpgVars, env, self_episode, disk,
                   args, loops, iteration, locals, cnt, ops, steps_left>>

\* ddpg.py:177
DDPG_SelectAction ==
    /\ algo = "ddpg" /\ pc = "select"
    /\ \E w \in NoiseVals :
          LET r == SelectAction(observation, TRUE, w)
          IN  /\ action' = r.a
              /\ noise' = r.noise
              /\ cnt' = [cnt EXCEPT !.noise_iteration = @ + r.iterations]
    /\ ops' = Append(ops, "select_action")
    /\ pc' = "env_step"
    /\ UNCHANGED <<hist, mpoVars, op, raised, nets, opts, hyper, buffer, env, self_episode,
                   disk, args, loops, iteration, observation, new_observation,
                   done, y, steps_left>>

\* ddpg.py:178-185: env.step, render, the logging sums, iteration += 1.
DDPG_EnvStep ==
    /\ algo = "ddpg" /\ pc = "env_step"
    /\ \E d \in BOOLEAN :
          /\ done' = d
          /\ env' = EnvStep(env, d)
    /\ new_observation' = StepObs(env)
    /\ iteration' = [iteration EXCEPT !.v = @ + 1]
    /\ cnt' = Count(cnt, "env_step")
    /\ ops' = Append(ops, "env.step")
    /\ steps_left' = steps_left - 1
    /\ pc' = "push"
    /\ UNCHANGED <<hist, mpoVars, op, raised, nets, opts, hyper, ddpgVars, self_episode,
                   disk, args, loops, observation, action, y>>

\* The step without its buffer.push.
DDPG_Push_Forgotten ==
    /\ algo = "ddpg" /\ pc = "push"
    /\ observation' = new_observation
    /\ ops' = Append(ops, "buffer.push")
    /\ pc' = "sample"
    /\ UNCHANGED <<hist, mpoVars, op, raised, nets, opts, hyper, ddpgVars, env, self_episode,
                   disk, args, loops, iteration, new_observation, done,
                   action, y, cnt, steps_left>>

\* ddpg.py:188-189
DDPG_Push ==
    /\ algo = "ddpg" /\ pc = "push"
    /\ buffer' = BufferPush(buffer)
    /\ observation' = new_observation
    /\ cnt' = Count(cnt, "push")
    /\ ops' = Append(ops, "buffer.push")
    /\ pc' = "sample"
    /\ UNCHANGED <<hist, mpoVars, op, raised, nets, opts, hyper, noise, env, self_episode,
                   disk, args, loops, iteration, new_observation, done,
                   action, y, steps_left>>

\* ddpg.py:192-193: buffer.sample fails on an empty buffer.
DDPG_Sample ==
    /\ algo = "ddpg" /\ pc = "sample"
    /\ cnt' = Count(cnt, "sample")
    /\ ops' = Append(ops, "buffer.sample")
    /\ IF buffer.size = 0
       THEN Finish("InsufficientDataError")
       ELSE /\ pc' = "td_target"
            /\ UNCHANGED raised
    /\ UNCHANGED <<hist, mpoVars, op, nets, opts, hyper, ddpgVars, env, self_episode, disk,
                   args, loops, iteration, locals, steps_left>>

\* ddpg.py:196
DDPG_TDTarget ==
    /\ algo = "ddpg" /\ pc = "td_target"
    /\ y' = TDTarget(observation)
    /\ ops' = Append(ops, "td_target")
    /\ pc' = "critic_step"
    /\ UNCHANGED <<hist, mpoVars, op, raised, nets, opts, hyper, ddpgVars, env, self_episode,
                   disk, args, loops, iteration, observation, new_observation,
                   done, action, cnt, steps_left>>

\* ddpg.py:198-203: critic_optimizer was constructed over
\* self.critic.parameters() (ddpg.py:65).
DDPG_CriticStep ==
    /\ algo = "ddpg" /\ pc = "critic_step"
    /\ critic' = OptimizerStep(critic)
    /\ critic_optimizer' = critic_optimizer + 1
    /\ cnt' = Count(cnt, "critic_step")
    /\ ops' = Append(ops, "critic_optimizer.step")
    /\ pc' = "actor_step"
    /\ UNCHANGED <<hist, mpoVars, op, raised, actor, target_actor, target_critic,
                   actor_optimizer, hyper, ddpgVars, env, self_episode, disk,
                   args, loops, iteration, locals, steps_left>>

\* The step with _soft_update called before the actor's optimizer step.
DDPG_ActorStep_AfterSoftUpdate ==
    /\ algo = "ddpg" /\ pc = "actor_step"
    /\ target_critic' = SoftUpdate(target_critic, critic)
    /\ target_actor' = SoftUpdate(target_actor, actor)
    /\ actor' = OptimizerStep(actor)
    /\ actor_optimizer' = actor_optimizer + 1
    /\ cnt' = Count(Count(cnt, "soft_update"), "actor_step")
    /\ ops' = Append(Append(ops, "soft_update"), "actor_optimizer.step")
    /\ t' = t + 1
    /\ pc' = StepAfter(t)
    /\ UNCHANGED <<hist, mpoVars, op, raised, critic, critic_optimizer, hyper, ddpgVars, env,
                   self_episode, disk, args, episode, iteration, locals,
                   steps_left>>

\* ddpg.py:206-210: actor_optimizer was constructed over
\* self.actor.parameters() (ddpg.py:64).
DDPG_ActorStep ==
    /\ algo = "ddpg" /\ pc = "actor_step"
    /\ actor' = OptimizerStep(actor)
    /\ actor_optimizer' = actor_optimizer + 1
    /\ cnt' = Count(cnt, "actor_step")
    /\ ops' = Append(ops, "actor_optimizer.step")
    /\ pc' = "soft_update"
    /\ UNCHANGED <<hist, mpoVars, op, raised, critic, target_actor, target_critic,
                   critic_optimizer, hyper, ddpgVars, env, self_episode, disk,
                   args, loops, iteration, locals, steps_left>>

\* ddpg.py:213, 170: _soft_update, then the next step.
DDPG_SoftUpdate ==
    /\ algo = "ddpg" /\ pc = "soft_update"
    /\ target_critic' = SoftUpdate(target_critic, critic)
    /\ target_actor' = SoftUpdate(target_actor, actor)
    /\ cnt' = Count(cnt, "soft_update")
    /\ ops' = Append(ops, "soft_update")
    /\ t' = t + 1
    /\ pc' = StepAfter(t)
    /\ UNCHANGED <<hist, mpoVars, op, raised, actor, critic, opts, hyper, ddpgVars, env,
                   self_episode, disk, args, episode, iteration, locals,
                   steps_left>>

\* ddpg.py:215-220, 166: the episode's logging reads iteration, then the
\* next episode.
DDPG_EpisodeEnd ==
    /\ algo = "ddpg" /\ pc = "ep_tail"
    /\ IF iteration.bound
       THEN /\ episode' = episode + 1
            /\ ops' = <<>>
            /\ pc' = EpisodeAfter(episode)
            /\ hist' = [hist EXCEPT !.trained = @ + 1]
            /\ UNCHANGED raised
       ELSE /\ Finish("UnboundLocalError")
            /\ UNCHANGED <<episode, ops, hist>>
    /\ UNCHANGED <<mpoVars, op, nets, opts, hyper, ddpgVars, env, self_episode, disk,
                   args, t, iteration, locals, cnt, steps_left>>

\* ddpg.py:265-279 save_model: the checkpoint's epoch is self.episode.
DDPG_SaveFile ==
    Checkpoint(self_episode)

\* ddpg.py:223-224
DDPG_TrainEnd ==
    /\ algo = "ddpg" /\ pc = "train_end"
    /\ disk' = IF sf THEN DDPG_SaveFile ELSE disk
    /\ Finish("none")
    /\ hist' = IF sf THEN [hist EXCEPT !.file_by_train = TRUE,
                                       !.file_trained = hist.trained]
               ELSE hist
    /\ UNCHANGED <<mpoVars, op, nets, opts, hyper, ddpgVars, env, self_episode, args,
                   loops, iteration, locals, cnt, ops, steps_left>>

\* ddpg.py:228-241: eval(episodes=e, episode_length=i).
DDPG_Eval ==
    /\ algo = "ddpg" /\ pc = "idle"
    /\ \E e \in 1..MaxSteps, i \in 1..MaxSteps :
          /\ e * i <= steps_left
          /\ ep' = e /\ it' = i
    /\ op' = "eval"
    /\ episode' = 0 /\ t' = 0
    /\ pc' = "ev_reset"
    /\ UNCHANGED <<hist, mpoVars, raised, nets, opts, hyper, ddpgVars, env, self_episode,
                   disk, log_f, sf, iteration, locals, cnt, ops, steps_left>>

\* ddpg.py:242
DDPG_EvalReset ==
    /\ algo = "ddpg" /\ pc = "ev_reset"
    /\ observation' = ResetObs(env)
    /\ env' = EnvReset(env)
    /\ cnt' = Count(cnt, "env_reset")
    /\ t' = 0
    /\ pc' = "ev_select"
    /\ UNCHANGED <<hist, mpoVars, op, raised, nets, opts, hyper, ddpgVars, self_episode,
                   disk, args, episode, iteration, new_observation, done,
                   action, y, ops, steps_left>>

\* ddpg.py:247-248: _select_action(state, train=False)
DDPG_EvalSelectAction ==
    /\ algo = "ddpg" /\ pc = "ev_select"
    /\ \E w \in NoiseVals :
          LET r == SelectAction(observation, FALSE, w)
          IN  /\ action' = r.a
              /\ noise' = r.noise
              /\ cnt' = [cnt EXCEPT !.noise_iteration = @ + r.iterations]
    /\ pc' = "ev_step"
    /\ UNCHANGED <<hist, mpoVars, op, raised, nets, opts, hyper, buffer, env, self_episode,
                   disk, args, loops, iteration, observation, new_observation,
                   done, y, ops, steps_left>>

\* ddpg.py:252-257, 246, 241: env.step; done is not read.
DDPG_EvalEnvStep ==
    /\ algo = "ddpg" /\ pc = "ev_step"
    /\ \E d \in BOOLEAN :
          /\ done' = d
          /\ env' = EnvStep(env, d)
    /\ new_observation' = StepObs(env)
    /\ observation' = StepObs(env)
    /\ cnt' = Count(cnt, "env_step")
    /\ steps_left' = steps_left - 1
    /\ t' = t + 1
    /\ IF t + 1 < it
       THEN /\ pc' = "ev_select"
            /\ UNCHANGED <<episode, raised>>
       ELSE /\ episode' = episode + 1
            /\ IF episode + 1 < ep
               THEN /\ pc' = "ev_reset"
                    /\ UNCHANGED raised
               ELSE Finish("none")
    /\ UNCHANGED <<hist, mpoVars, op, nets, opts, hyper, ddpgVars, self_episode, disk, args,
                   iteration, action, y, ops>>

\* ddpg.py:265-279: save_model() called by the user.
DDPG_SaveModel ==
    /\ algo = "ddpg" /\ pc = "idle"
    /\ disk' = DDPG_SaveFile
    /\ hist' = [hist EXCEPT !.file_by_train = FALSE,
                            !.file_trained = hist.trained]
    /\ UNCHANGED <<mpoVars, pc, op, raised, nets, opts, hyper, ddpgVars, env,
                   self_episode, args, loops, iteration, locals, cnt, ops,
                   steps_left>>

\* ddpg.py:281-294: load_model() of an existing checkpoint.
DDPG_LoadModel ==
    /\ algo = "ddpg" /\ pc = "idle"
    /\ disk.exists
    /\ self_episode' = disk.epoch
    /\ critic' = disk.critic
    /\ target_critic' = disk.target_critic
    /\ actor' = disk.actor
    /\ target_actor' = disk.target_actor
    /\ critic_optimizer' = disk.critic_optim
    /\ actor_optimizer' = disk.actor_optim
    /\ hist' = [hist EXCEPT !.trained = hist.file_trained]
    /\ UNCHANGED <<mpoVars, pc, op, raised, hyper, ddpgVars, env, disk, args, loops,
                   iteration, locals, cnt, ops, steps_left>>

NextDDPG ==
    \/ DDPG_HardCopy
    \/ DDPG_RandomTrajectoryReset
    \/ DDPG_RandomTrajectoryStep
    \/ DDPG_CtorFinish
    \/ DDPG_Train
    \/ DDPG_NoiseReset
    \/ DDPG_EnvReset
    \/ DDPG_LogCheck
    \/ DDPG_SelectAction
    \/ DDPG_EnvStep
    \/ DDPG_Push
    \/ DDPG_Sample
    \/ DDPG_TDTarget
    \/ DDPG_CriticStep
    \/ DDPG_ActorStep
    \/ DDPG_SoftUpdate
    \/ DDPG_EpisodeEnd
    \/ DDPG_TrainEnd
    \/ DDPG_Eval
    \/ DDPG_EvalReset
    \/ DDPG_EvalSelectAction
    \/ DDPG_EvalEnvStep
    \/ DDPG_SaveModel
    \/ DDPG_LoadModel

\* ======================================================================
\*                                MPO
\* ======================================================================

\* mpo.py:48-51: alpha and mean_constraint at their defaults 10 and 0.1,
\* var_constraint given as 0.2.
Alpha == RInt(10)
EpsMu == <<1, 10>>
EpsSigma == <<1, 5>>

\* mpo.py:286: the lower bound 1e-6 given to the minimizer.
EtaFloor == <<1, 1000000>>

\* The three draws of np.random.rand(), uniform over [0, 1), that
\* initialise eta, eta_mu and eta_sigma: values among 0, 5e-7 and 1/2.
RandDraws ==
    { <<<<0, 1>>, <<0, 1>>, <<1, 2>>>>,
      <<<<1, 2000000>>, <<1, 2>>, <<0, 1>>>>,
      <<<<1, 2>>, <<1, 2>>, <<1, 2>>>> }

\* Points the bounded minimizer can return: the bound itself and 1/2.
MinimizerResults == {EtaFloor, <<1, 2>>}

\* The MPO constructor's arguments mb_size, rerun_mb, lagrange_it and
\* sample_episodes.
MPOConfigs ==
    { [mb_size |-> 1, rerun_mb |-> 1, lagrange_it |-> 1, sample_episodes |-> 1],
      [mb_size |-> 2, rerun_mb |-> 2, lagrange_it |-> 1, sample_episodes |-> 1],
      [mb_size |-> 2, rerun_mb |-> 1, lagrange_it |-> 2, sample_episodes |-> 2] }

\* The object at the start of the constructor's parameter copies
\* (mpo.py:67): the four networks are freshly and independently initialised.
InitMPO ==
    /\ algo = "mpo"
    /\ pc = "mpo_ctor_copy" /\ op = "__init__" /\ raised = "none"
    /\ actor = [i \in 1..NParams |-> RInt(-i)]
    /\ target_actor = [i \in 1..NParams |-> RInt(i)]
    /\ critic = [i \in 1..NParams |-> RInt(NParams + i)]
    /\ target_critic = [i \in 1..NParams |-> RInt(-NParams - i)]
    /\ actor_optimizer = 0 /\ critic_optimizer = 0
    /\ tau = RInt(0) /\ batch_size = 0 /\ action_range = 1
    /\ noise = 0
    /\ buffer = [size |-> 0, capacity |-> 0]
    /\ env = [done |-> FALSE, n |-> 0]
    /\ self_episode = 0
    /\ disk = NoFile
    /\ ep = 0 /\ it = 0 /\ log_f = FALSE /\ sf = FALSE
    /\ episode = 0 /\ t = 0
    /\ iteration = [bound |-> FALSE, v |-> 0]
    /\ observation = NoObs /\ new_observation = NoObs /\ done = FALSE
    /\ action = RInt(0) /\ y = RInt(0)
    /\ eta = RInt(0) /\ eta_mu = RInt(0) /\ eta_sigma = RInt(0)
    /\ \E c \in MPOConfigs :
          /\ mb_size = c.mb_size
          /\ rerun_mb = c.rerun_mb
          /\ lagrange_it = c.lagrange_it
          /\ sample_episodes = c.sample_episodes
    /\ states = <<>> /\ actions = <<>> /\ rewards = <<>>
    /\ next_states = <<>> /\ dones = <<>> /\ se = 0
    /\ rr = 0 /\ order = <<>> /\ mb = 0 /\ lag = 0
    /\ cnt = ZeroCnt
    /\ ops = <<>>
    /\ steps_left = MaxSteps
    /\ hist = NoHistory

\* mpo.py:67-70, 76-79: both targets are hard-copied from the live networks.
MPO_HardCopy ==
    /\ algo = "mpo" /\ pc = "mpo_ctor_copy"
    /\ target_critic' = critic
    /\ target_actor' = actor
    /\ pc' = "mpo_ctor_eta"
    /\ UNCHANGED <<hist, op, raised, actor, critic, opts, hyper, ddpgVars, env,
                   self_episode, disk, args, loops, iteration, locals,
                   mpoVars, cnt, ops, steps_left>>

\* mpo.py:83-95: the three multipliers are drawn with np.random.rand();
\* the control variables; the constructor returns.
MPO_InitMultipliers ==
    /\ algo = "mpo" /\ pc = "mpo_ctor_eta"
    /\ \E r \in RandDraws :
          /\ eta' = r[1]
          /\ eta_mu' = r[2]
          /\ eta_sigma' = r[3]
    /\ self_episode' = 0
    /\ Finish("none")
    /\ UNCHANGED <<hist, op, nets, opts, hyper, ddpgVars, env, disk, args, loops,
                   iteration, locals, mpoHyper, batches, mpoLoops, cnt, ops,
                   steps_left>>

\* mpo.py:194-224: train(episodes=e, episode_length=i, log=lg, save=s); the
\* episode loop starts at self.episode.
MPO_Train ==
    /\ algo = "mpo" /\ pc = "idle"
    /\ \E e \in 1..MaxSteps, i \in 1..MaxSteps, lg \in BOOLEAN, s \in BOOLEAN :
          /\ (IF self_episode < e
              THEN (e - self_episode) * sample_episodes * i ELSE 0) <= steps_left
          /\ ep' = e /\ it' = i /\ log_f' = lg /\ sf' = s
          /\ pc' = IF self_episode < e THEN "st_begin" ELSE "mpo_train_end"
    /\ op' = "train"
    /\ episode' = self_episode
    /\ t' = 0
    /\ UNCHANGED <<hist, raised, nets, opts, hyper, ddpgVars, env, self_episode,
                   disk, iteration, locals, mpoVars, cnt, ops, steps_left>>

\* range(episodes) of _sample_trajectory: what follows sampling episode n.
SampleEpisodeAfter(n) ==
    IF n + 1 < sample_episodes THEN "st_reset" ELSE "st_return"

\* mpo.py:227, 105-110: _sample_trajectory(L, it, rend) starts.
MPO_SampleBegin ==
    /\ algo = "mpo" /\ pc = "st_begin"
    /\ states' = <<>> /\ actions' = <<>> /\ rewards' = <<>>
    /\ next_states' = <<>> /\ dones' = <<>>
    /\ se' = 0
    /\ ops' = <<>>
    /\ pc' = IF 0 < sample_episodes THEN "st_reset" ELSE "st_return"
    /\ UNCHANGED <<hist, op, raised, nets, opts, hyper, ddpgVars, env, self_episode,
                   disk, args, loops, iteration, locals, multipliers,
                   mpoHyper, mpoLoops, cnt, steps_left>>

\* mpo.py:111-112
MPO_SampleReset ==
    /\ algo = "mpo" /\ pc = "st_reset"
    /\ observation' = ResetObs(env)
    /\ env' = EnvReset(env)
    /\ cnt' = Count(cnt, "env_reset")
    /\ t' = 0
    /\ pc' = IF 0 < it THEN "st_step" ELSE SampleEpisodeAfter(se)
    /\ se' = IF 0 < it THEN se ELSE se + 1
    /\ UNCHANGED <<hist, op, raised, nets, opts, hyper, ddpgVars, self_episode,
                   disk, args, episode, iteration, new_observation, done,
                   action, y, multipliers, mpoHyper, states, actions, rewards,
                   next_states, dones, mpoLoops, ops, steps_left>>

\* The sampling step without the reset on done.
SampleStep_NoReset(d) ==
    /\ action' = Forward(target_actor, observation)
    /\ done' = d
    /\ new_observation' = StepObs(env)
    /\ states' = Append(states, observation)
    /\ rewards' = Append(rewards, env.n + 1)
    /\ actions' = Append(actions, Forward(target_actor, observation))
    /\ next_states' = Append(next_states, StepObs(env))
    /\ dones' = Append(dones, d)
    /\ observation' = StepObs(env)
    /\ env' = EnvStep(env, d)
    /\ cnt' = Count(cnt, "env_step")

\* mpo.py:113-127: one step of the target policy; the transition is
\* appended; the environment is reset when the step reports done.
SampleStep(d) ==
    /\ action' = Forward(target_actor, observation)
    /\ done' = d
    /\ new_observation' = StepObs(env)
    /\ states' = Append(states, observation)
    /\ rewards' = Append(rewards, env.n + 1)
    /\ actions' = Append(actions, Forward(target_actor, observation))
    /\ next_states' = Append(next_states, StepObs(env))
    /\ dones' = Append(dones, d)
    /\ observation' = IF d THEN ResetObs(EnvStep(env, d)) ELSE StepObs(env)
    /\ env' = IF d THEN EnvReset(EnvStep(env, d)) ELSE EnvStep(env, d)
    /\ cnt' = IF d THEN Count(Count(cnt, "env_step"), "env_reset")
              ELSE Count(cnt, "env_step")

MPO_SampleStep ==
    /\ algo = "mpo" /\ pc = "st_step"
    /\ \E d \in BOOLEAN : SampleStep(d)
    /\ steps_left' = steps_left - 1
    /\ t' = t + 1
    /\ pc' = IF t + 1 < it THEN "st_step" ELSE SampleEpisodeAfter(se)
    /\ se' = IF t + 1 < it THEN se ELSE se + 1
    /\ UNCHANGED <<hist, op, raised, nets, opts, hyper, ddpgVars, self_episode,
                   disk, args, episode, iteration, y, multipliers, mpoHyper,
                   mpoLoops, ops>>

\* The rerun loop left after its first pass.
PassAfter_FirstPassOnly(n) ==
    "update_param"

\* range(rerun): what follows rerun pass n.
PassAfter(n) ==
    IF n + 1 < rerun_mb THEN "pass_begin" ELSE "update_param"

\* mpo.py:128-133, 228-232: the batches are returned; the rerun loop starts.
MPO_SampleReturn ==
    /\ algo = "mpo" /\ pc = "st_return"
    /\ rr' = 0
    /\ pc' = IF 0 < rerun_mb THEN "pass_begin" ELSE "update_param"
    /\ UNCHANGED <<hist, op, raised, nets, opts, hyper, ddpgVars, env, self_episode,
                   disk, args, loops, iteration, locals, multipliers,
                   mpoHyper, batches, order, mb, lag, cnt, ops, steps_left>>

\* BatchSampler(sampler, n, True): the last, shorter run is dropped.
RECURSIVE Chunks_DropLast(_, _)
Chunks_DropLast(seq, n) ==
    IF Len(seq) < n \/ n = 0 THEN <<>>
    ELSE <<SubSeq(seq, 1, n)>> \o Chunks_DropLast(SubSeq(seq, n + 1, Len(seq)), n)

\* BatchSampler(sampler, n, False): the sampler's sequence cut into runs of
\* n, the last one shorter when n does not divide its length.
RECURSIVE Chunks(_, _)
Chunks(seq, n) ==
    IF seq = <<>> THEN <<>>
    ELSE IF Len(seq) <= n THEN <<seq>>
    ELSE <<SubSeq(seq, 1, n)>> \o Chunks(SubSeq(seq, n + 1, Len(seq)), n)

\* SubsetRandomSampler(range(n)): a random permutation of the n indices
\* (positions 1..n of the batch); the identity and the reversal stand for
\* the permutations.
SamplerOrders(n) ==
    { [i \in 1..n |-> i], [i \in 1..n |-> n + 1 - i] }

\* What follows minibatch number n of a pass whose minibatches are o.
MinibatchAfter(n, o) ==
    IF n < Len(o) THEN "critic_update" ELSE PassAfter(rr)

\* mpo.py:233: the minibatch indices of one pass over range(it).
MPO_PassBegin ==
    /\ algo = "mpo" /\ pc = "pass_begin"
    /\ \E perm \in SamplerOrders(it) :
          /\ order' = Chunks(perm, mb_size)
          /\ pc' = MinibatchAfter(0, Chunks(perm, mb_size))
    /\ mb' = 1
    /\ lag' = 0
    /\ UNCHANGED <<hist, op, raised, nets, opts, hyper, ddpgVars, env, self_episode,
                   disk, args, loops, iteration, locals, multipliers,
                   mpoHyper, batches, rr, cnt, ops, steps_left>>

\* mpo.py:234-273, 135-152: the additional actions and their Q-values, then
\* _critic_update: critic_optimizer was constructed over
\* self.critic.parameters() (mpo.py:71).
MPO_CriticUpdate ==
    /\ algo = "mpo" /\ pc = "critic_update"
    /\ critic' = OptimizerStep(critic)
    /\ critic_optimizer' = critic_optimizer + 1
    /\ cnt' = Count(cnt, "critic_step")
    /\ ops' = Append(ops, "critic_optimizer.step")
    /\ pc' = "dual"
    /\ UNCHANGED <<hist, op, raised, actor, target_actor, target_critic,
                   actor_optimizer, hyper, ddpgVars, env, self_episode, disk,
                   args, loops, iteration, locals, mpoVars, steps_left>>

\* mpo.py:277-297, 302: the bounded minimizer's result replaces self.eta.
MPO_Dual ==
    /\ algo = "mpo" /\ pc = "dual"
    /\ eta' \in MinimizerResults
    /\ cnt' = Count(cnt, "dual")
    /\ ops' = Append(ops, "minimize")
    /\ lag' = 0
    /\ pc' = IF 0 < lagrange_it THEN "multipliers" ELSE "mb_next"
    /\ UNCHANGED <<hist, op, raised, nets, opts, hyper, ddpgVars, env, self_episode,
                   disk, args, loops, iteration, locals, eta_mu, eta_sigma,
                   mpoHyper, batches, rr, order, mb, steps_left>>

\* The multiplier update without the clamp at 0.
MultiplierUpdate_Unclamped(m, eps, c) ==
    RAdd(m, RNeg(RMul(Alpha, RAdd(eps, RNeg(c)))))

RMax0(x) ==
    IF x[1] < 0 THEN RInt(0) ELSE x

\* mpo.py:321-327: eta <- eta - alpha * (eps - C), set to 0 when negative.
MultiplierUpdate(m, eps, c) ==
    RMax0(RAdd(m, RNeg(RMul(Alpha, RAdd(eps, RNeg(c))))))

\* mpo.py:154-180 _calculate_gaussian_kl of the policy against the target
\* policy, the two policies being given by their networks' parameters: the
\* mean term inner_mu grows with the square of the distance of the means,
\* the covariance term inner_Sigma with the distance; both are 0 for
\* identical policies.  As in the code, C_mu is half the covariance term
\* and C_Sigma half the mean term.
CalculateGaussianKL(a, ta) ==
    LET d == RAdd(RSum(a), RNeg(RSum(ta)))
        inner_mu == RMul(RMul(d, d), <<1, 20>>)
        inner_sigma == RMul(<<Abs(d[1]), d[2]>>, <<1, 10>>)
    IN  [C_mu |-> RMul(<<1, 2>>, inner_sigma),
         C_sigma |-> RMul(<<1, 2>>, inner_mu)]

\* mpo.py:303-327: the policy's Gaussian, the KL terms, the multipliers.
MPO_MultiplierUpdate ==
    /\ algo = "mpo" /\ pc = "multipliers"
    /\ LET kl == CalculateGaussianKL(actor, target_actor)
       IN  /\ eta_mu' = MultiplierUpdate(eta_mu, EpsMu, kl.C_mu)
           /\ eta_sigma' = MultiplierUpdate(eta_sigma, EpsSigma, kl.C_sigma)
    /\ cnt' = Count(cnt, "multiplier_update")
    /\ ops' = Append(ops, "multipliers")
    /\ pc' = "mpo_actor_step"
    /\ UNCHANGED <<hist, op, raised, nets, opts, hyper, ddpgVars, env, self_episode,
                   disk, args, loops, iteration, locals, eta, mpoHyper,
                   batches, mpoLoops, steps_left>>

\* The actor's optimizer constructed over self.target_actor.parameters().
MPO_ActorStep_OverTarget ==
    /\ algo = "mpo" /\ pc = "mpo_actor_step"
    /\ target_actor' = OptimizerStep(target_actor)
    /\ actor_optimizer' = actor_optimizer + 1
    /\ cnt' = Count(cnt, "actor_step")
    /\ ops' = Append(ops, "actor_optimizer.step")
    /\ lag' = lag + 1
    /\ pc' = IF lag + 1 < lagrange_it THEN "multipliers" ELSE "mb_next"
    /\ UNCHANGED <<hist, op, raised, critic, actor, target_critic,
                   critic_optimizer, hyper, ddpgVars, env, self_episode, disk,
                   args, loops, iteration, locals, multipliers, mpoHyper,
                   batches, rr, order, mb, steps_left>>

\* mpo.py:329-337, 302: actor_optimizer was constructed over
\* self.actor.parameters() (mpo.py:80).
MPO_ActorStep ==
    /\ algo = "mpo" /\ pc = "mpo_actor_step"
    /\ actor' = OptimizerStep(actor)
    /\ actor_optimizer' = actor_optimizer + 1
    /\ cnt' = Count(cnt, "actor_step")
    /\ ops' = Append(ops, "actor_optimizer.step")
    /\ lag' = lag + 1
    /\ pc' = IF lag + 1 < lagrange_it THEN "multipliers" ELSE "mb_next"
    /\ UNCHANGED <<hist, op, raised, critic, target_actor, target_critic,
                   critic_optimizer, hyper, ddpgVars, env, self_episode, disk,
                   args, loops, iteration, locals, multipliers, mpoHyper,
                   batches, rr, order, mb, steps_left>>

\* mpo.py:233, 232: the next minibatch, or the next pass.
MPO_NextMinibatch ==
    /\ algo = "mpo" /\ pc = "mb_next"
    /\ pc' = MinibatchAfter(mb, order)
    /\ mb' = IF mb < Len(order) THEN mb + 1 ELSE mb
    /\ rr' = IF mb < Len(order) THEN rr ELSE rr + 1
    /\ UNCHANGED <<hist, op, raised, nets, opts, hyper, ddpgVars, env, self_episode,
                   disk, args, loops, iteration, locals, multipliers,
                   mpoHyper, batches, order, lag, cnt, ops, steps_left>>

\* mpo.py:339, 182-192: _update_param hard-copies both targets.
MPO_UpdateParam ==
    /\ algo = "mpo" /\ pc = "update_param"
    /\ target_actor' = actor
    /\ target_critic' = critic
    /\ cnt' = Count(cnt, "update_param")
    /\ ops' = Append(ops, "update_param")
    /\ pc' = "mpo_save"
    /\ hist' = [hist EXCEPT !.trained = @ + 1]
    /\ UNCHANGED <<op, raised, actor, critic, opts, hyper, ddpgVars, env,
                   self_episode, disk, args, loops, iteration, locals,
                   mpoVars, steps_left>>

\* mpo.py:412-428 save_model(episode, path): the checkpoint's epoch is the
\* episode argument.
MPO_SaveFile(e) ==
    Checkpoint(e)

\* mpo.py:341-353: the episode's print, then save_model(episode=episode).
MPO_EpisodeSave ==
    /\ algo = "mpo" /\ pc = "mpo_save"
    /\ disk' = IF sf THEN MPO_SaveFile(episode) ELSE disk
    /\ pc' = "mpo_log"
    /\ hist' = IF sf THEN [hist EXCEPT !.file_by_train = TRUE,
                                       !.file_trained = hist.trained]
               ELSE hist
    /\ UNCHANGED <<op, raised, nets, opts, hyper, ddpgVars, env, self_episode,
                   args, loops, iteration, locals, mpoVars, cnt, ops,
                   steps_left>>

\* mpo.py:354-362, 224: with logging on, self.it is read, an attribute the
\* object does not have; otherwise the next episode.
MPO_EpisodeLog ==
    /\ algo = "mpo" /\ pc = "mpo_log"
    /\ IF log_f
       THEN /\ Finish("AttributeError")
            /\ UNCHANGED episode
       ELSE /\ episode' = episode + 1
            /\ pc' = IF episode + 1 < ep THEN "st_begin" ELSE "mpo_train_end"
            /\ UNCHANGED raised
    /\ UNCHANGED <<hist, op, nets, opts, hyper, ddpgVars, env, self_episode, disk,
                   args, t, iteration, locals, mpoVars, cnt, ops, steps_left>>

\* mpo.py:364-366: train returns.
MPO_TrainEnd ==
    /\ algo = "mpo" /\ pc = "mpo_train_end"
    /\ Finish("none")
    /\ UNCHANGED <<hist, op, nets, opts, hyper, ddpgVars, env, self_episode, disk,
                   args, loops, iteration, locals, mpoVars, cnt, ops,
                   steps_left>>

\* mpo.py:368-379: eval(episodes=e, episode_length=i).
MPO_Eval ==
    /\ algo = "mpo" /\ pc = "idle"
    /\ \E e \in 1..MaxSteps, i \in 1..MaxSteps :
          /\ e * i <= steps_left
          /\ ep' = e /\ it' = i
    /\ op' = "eval"
    /\ episode' = 0 /\ t' = 0
    /\ pc' = "mpo_ev_reset"
    /\ UNCHANGED <<hist, raised, nets, opts, hyper, ddpgVars, env, self_episode,
                   disk, log_f, sf, iteration, locals, mpoVars, cnt, ops,
                   steps_left>>

\* mpo.py:380-382
MPO_EvalReset ==
    /\ algo = "mpo" /\ pc = "mpo_ev_reset"
    /\ observation' = ResetObs(env)
    /\ env' = EnvReset(env)
    /\ cnt' = Count(cnt, "env_reset")
    /\ t' = 0
    /\ pc' = "mpo_ev_step"
    /\ UNCHANGED <<hist, op, raised, nets, opts, hyper, ddpgVars, self_episode,
                   disk, args, episode, iteration, new_observation, done,
                   action, y, mpoVars, ops, steps_left>>

\* mpo.py:383-388, 390: a step of the target policy; the environment is
\* reset when the step reports done.
MPO_EvalStep ==
    /\ algo = "mpo" /\ pc = "mpo_ev_step"
    /\ \E d \in BOOLEAN :
          /\ done' = d
          /\ observation' = IF d THEN ResetObs(EnvStep(env, d)) ELSE StepObs(env)
          /\ env' = IF d THEN EnvReset(EnvStep(env, d)) ELSE EnvStep(env, d)
          /\ cnt' = IF d THEN Count(Count(cnt, "env_step"), "env_reset")
                    ELSE Count(cnt, "env_step")
    /\ action' = Forward(target_actor, observation)
    /\ new_observation' = StepObs(env)
    /\ steps_left' = steps_left - 1
    /\ t' = t + 1
    /\ IF t + 1 < it
       THEN /\ pc' = "mpo_ev_step"
            /\ UNCHANGED <<episode, raised>>
       ELSE /\ episode' = episode + 1
            /\ IF episode + 1 < ep
               THEN /\ pc' = "mpo_ev_reset"
                    /\ UNCHANGED raised
               ELSE Finish("none")
    /\ UNCHANGED <<hist, op, nets, opts, hyper, ddpgVars, self_episode, disk, args,
                   iteration, y, mpoVars, ops>>

\* mpo.py:412-428: save_model() called by the user, with the default
\* episode=0 or with the object's episode counter.
MPO_SaveModel ==
    /\ algo = "mpo" /\ pc = "idle"
    /\ \E e \in {0, self_episode} : disk' = MPO_SaveFile(e)
    /\ hist' = [hist EXCEPT !.file_by_train = FALSE,
                            !.file_trained = hist.trained]
    /\ UNCHANGED <<pc, op, raised, nets, opts, hyper, ddpgVars, env,
                   self_episode, args, loops, iteration, locals, mpoVars, cnt,
                   ops, steps_left>>

\* mpo.py:393-410: load_model() of an existing checkpoint.
MPO_LoadModel ==
    /\ algo = "mpo" /\ pc = "idle"
    /\ disk.exists
    /\ self_episode' = disk.epoch
    /\ critic' = disk.critic
    /\ target_critic' = disk.target_critic
    /\ actor' = disk.actor
    /\ target_actor' = disk.target_actor
    /\ critic_optimizer' = disk.critic_optim
    /\ actor_optimizer' = disk.actor_optim
    /\ hist' = [hist EXCEPT !.trained = hist.file_trained]
    /\ UNCHANGED <<pc, op, raised, hyper, ddpgVars, env, disk, args, loops,
                   iteration, locals, mpoVars, cnt, ops, steps_left>>

NextMPO ==
    \/ MPO_HardCopy
    \/ MPO_InitMultipliers
    \/ MPO_Train
    \/ MPO_SampleBegin
    \/ MPO_SampleReset
    \/ MPO_SampleStep
    \/ MPO_SampleReturn
    \/ MPO_PassBegin
    \/ MPO_CriticUpdate
    \/ MPO_Dual
    \/ MPO_MultiplierUpdate
    \/ MPO_ActorStep
    \/ MPO_NextMinibatch
    \/ MPO_UpdateParam
    \/ MPO_EpisodeSave
    \/ MPO_EpisodeLog
    \/ MPO_TrainEnd
    \/ MPO_Eval
    \/ MPO_EvalReset
    \/ MPO_EvalStep
    \/ MPO_SaveModel
    \/ MPO_LoadModel

\* ======================================================================
\*                           specification
\* ======================================================================

Init ==
    InitDDPG \/ InitMPO

Next ==
    \/ NextDDPG
    \/ NextMPO
    \/ Return

Spec ==
    Init /\ [][Next]_vars

\* ======================================================================
\*                             properties
\* ======================================================================

\* C1: in DDPG.train, when the previous env.step of the call reported done,
\* the next action is selected from a fresh env.reset() observation of an
\* environment that is no longer done.
C1_ResetAfterDone ==
    (algo = "ddpg" /\ op = "train" /\ pc = "select" /\ done)
        => (observation.kind = "reset" /\ ~env.done)

\* C2: a DDPG.train call with ep episodes of it steps has performed, when
\* it ends, exactly ep*it environment steps, buffer pushes, critic
\* optimizer steps, actor optimizer steps and soft updates.
C2_ExactCounts ==
    (algo = "ddpg" /\ op = "train" /\ pc = "done")
        => /\ cnt.env_step = ep * it
           /\ cnt.push = ep * it
           /\ cnt.critic_step = ep * it
           /\ cnt.actor_step = ep * it
           /\ cnt.soft_update = ep * it

\* The order of the calls of one episode of DDPG.train.
EpisodePrologue ==
    <<"noise.reset", "env.reset">>

StepOrder ==
    <<"select_action", "env.step", "buffer.push", "buffer.sample",
      "td_target", "critic_optimizer.step", "actor_optimizer.step",
      "soft_update">>

ExpectedOp(i) ==
    IF i <= Len(EpisodePrologue)
    THEN EpisodePrologue[i]
    ELSE StepOrder[((i - Len(EpisodePrologue) - 1) % Len(StepOrder)) + 1]

\* C3: the target actor's and the target critic's parameters change only in
\* the constructor's hard copy, in DDPG._soft_update, in MPO._update_param
\* and in load_model; no optimizer step, and no other step of the
\* constructor, train, eval or save_model, changes them.
C3_TargetsFrame ==
    [][(target_actor' # target_actor \/ target_critic' # target_critic)
          => \/ pc \in {"ctor_copy", "mpo_ctor_copy"}
             \/ algo = "ddpg" /\ pc = "soft_update"
             \/ algo = "mpo" /\ pc = "update_param"
             \/ /\ pc = "idle" /\ pc' = "idle" /\ disk.exists
                /\ target_actor' = disk.target_actor
                /\ target_critic' = disk.target_critic]_vars

C3_Witness ==
    /\ algo = "mpo" /\ op = "train" /\ pc = "update_param"
    /\ cnt.critic_step >= 2 /\ cnt.actor_step >= 2
    /\ actor # target_actor
    /\ critic # target_critic

\* C4: the calls DDPG.train has made in the running episode are noise.reset,
\* env.reset and then, step after step, select action, env.step, buffer
\* push, sample, TD target, critic optimizer step, actor optimizer step,
\* soft update, in this order; the step counter t is the number of soft
\* updates of the episode plus one, and the TD target is the one the target
\* networks give.
C4_StepOrder ==
    (algo = "ddpg" /\ op = "train")
        => /\ \A i \in 1..Len(ops) : ops[i] = ExpectedOp(i)
           /\ pc \in {"log_check", "select", "env_step", "push", "sample",
                      "td_target", "critic_step", "actor_step", "soft_update"}
                 => /\ Len(ops) >= Len(EpisodePrologue)
                    /\ (Len(ops) - Len(EpisodePrologue)) \div Len(StepOrder) = t - 1
           /\ pc = "soft_update"
                 => (Len(ops) - Len(EpisodePrologue)) % Len(StepOrder)
                        = Len(StepOrder) - 1
           /\ pc = "critic_step"
                 => y = RAdd(RSum(target_critic), Forward(target_actor, observation))

C4_Witness ==
    /\ algo = "ddpg" /\ op = "train" /\ pc = "train_end"
    /\ ep >= 2 /\ it >= 2
    /\ cnt.soft_update = ep * it

\* C5: _soft_update sets every target parameter to
\* tau*source + (1-tau)*old target and leaves the live parameters alone:
\* with tau = p/q, q*new = p*source + (q-p)*old; tau = 1 gives the source,
\* tau = 0 the old target, tau = 1/2 the average.
BlendOf(new, old, source) ==
    /\ Len(new) = Len(old)
    /\ \A i \in 1..Len(old) :
         /\ RMul(RInt(tau[2]), new[i])
               = RAdd(RMul(RInt(tau[1]), source[i]),
                      RMul(RInt(tau[2] - tau[1]), old[i]))
         /\ tau = <<1, 1>> => new[i] = source[i]
         /\ tau = <<0, 1>> => new[i] = old[i]
         /\ tau = <<1, 2>> => RAdd(new[i], new[i]) = RAdd(old[i], source[i])

C5_SoftUpdate ==
    [][(algo = "ddpg" /\ pc = "soft_update")
          => /\ BlendOf(target_actor', target_actor, actor)
             /\ BlendOf(target_critic', target_critic, critic)
             /\ actor' = actor
             /\ critic' = critic]_vars

C5_Witness ==
    /\ algo = "ddpg" /\ op = "train" /\ cnt.soft_update >= 2
    /\ tau = <<1, 2>>
    /\ target_actor # actor
    /\ target_critic # critic

\* C6: the constructor has pushed batch_size random transitions when it
\* returns, having reset the environment after every done; DDPG.train never
\* calls buffer.sample on an empty buffer and never ends with the
\* insufficient-data failure.
C6_BufferPrefilled ==
    algo = "ddpg"
        => /\ (op = "__init__" /\ pc = "done")
                 => /\ cnt.push = batch_size
                    /\ cnt.env_step = batch_size
           /\ (op = "__init__" /\ pc \in {"rt_step", "ctor_end"})
                 => /\ ~env.done
                    /\ (t > 0 /\ done) => observation.kind = "reset"
                    /\ (t > 0 /\ ~done) => observation = new_observation
           /\ op = "train" => cnt.env_step = cnt.push + (IF pc = "push" THEN 1 ELSE 0)
           /\ pc = "sample" => buffer.size > 0
           /\ raised # "InsufficientDataError"

C6_Witness ==
    /\ algo = "ddpg" /\ op = "train" /\ pc = "sample"
    /\ batch_size = 0
    /\ buffer.size = 1

\* C7: _select_action(obs, train=False) is the target actor's output scaled
\* by action_range and clipped, and the noise process is not advanced;
\* with train=True it is the live actor's output plus one noise.iteration()
\* sample, scaled and clipped.
ScaledAndClipped(a) ==
    LET scaled == RMul(a, RInt(action_range))
    IN  IF RLe(scaled, RInt(-action_range)) THEN RInt(-action_range)
        ELSE IF RLe(RInt(action_range), scaled) THEN RInt(action_range)
        ELSE scaled

C7_SelectAction ==
    [][/\ (algo = "ddpg" /\ pc = "ev_select")
            => /\ action' = ScaledAndClipped(Forward(target_actor, observation))
               /\ noise' = noise
               /\ cnt'.noise_iteration = cnt.noise_iteration
       /\ (algo = "ddpg" /\ pc = "select")
            => /\ action' = ScaledAndClipped(
                                RAdd(Forward(actor, observation), RInt(noise')))
               /\ cnt'.noise_iteration = cnt.noise_iteration + 1]_vars

C7_Witness ==
    /\ algo = "ddpg" /\ op = "eval" /\ pc = "ev_step"
    /\ noise # 0
    /\ ScaledAndClipped(Forward(target_actor, observation))
          # ScaledAndClipped(Forward(actor, observation))
    /\ action = ScaledAndClipped(Forward(target_actor, observation))

\* C8: every action passed to env.step by train or eval lies in
\* [-action_range, action_range].
C8_ActionInRange ==
    (algo = "ddpg" /\ pc \in {"env_step", "ev_step"})
        => /\ RLe(RInt(-action_range), action)
           /\ RLe(action, RInt(action_range))

\* An action that the clipping changed, and one it left alone.
C8_Witness ==
    /\ algo = "ddpg" /\ op = "train" /\ pc = "env_step"
    /\ action_range = 2
    /\ action = RInt(action_range)
    /\ ~RLe(RMul(RAdd(Forward(actor, observation), RInt(noise)), RInt(action_range)),
            RInt(action_range))

\* What C9 says of the batches in every case: four parallel batches, every
\* action the target actor's, every next_state the observation the step
\* returned, a fresh env.reset() observation stored after a done step.
SampledBatches ==
    /\ Len(actions) = Len(states)
    /\ Len(rewards) = Len(states)
    /\ Len(next_states) = Len(states)
    /\ Len(dones) = Len(states)
    /\ pc = "st_return" => Len(states) = sample_episodes * it
    /\ \A k \in 1..Len(states) :
         /\ actions[k] = Forward(target_actor, states[k])
         /\ next_states[k] = [kind |-> "step", n |-> states[k].n + 1]
    /\ \A k \in 1..(Len(states) - 1) :
         dones[k] => /\ states[k + 1].kind = "reset"
                     /\ states[k + 1].n > next_states[k].n

\* C9 as claimed: after a step that did not report done, the next stored
\* state is that step's next_state.
C9_SampleTrajectory_Claimed ==
    (algo = "mpo" /\ op = "train" /\ pc \in {"st_reset", "st_step", "st_return"})
        => /\ SampledBatches
           /\ \A k \in 1..(Len(states) - 1) :
                ~dones[k] => states[k + 1] = next_states[k]

\* C9 as amended: after a step that did not report done, the next stored
\* state is that step's next_state unless the step was the last one of a
\* sampling episode; the first stored state of every sampling episode is a
\* fresh env.reset() observation.
C9_SampleTrajectory ==
    (algo = "mpo" /\ op = "train" /\ pc \in {"st_reset", "st_step", "st_return"})
        => /\ SampledBatches
           /\ \A k \in 1..(Len(states) - 1) :
                /\ (~dones[k] /\ k % it # 0) => states[k + 1] = next_states[k]
                /\ k % it = 0 => states[k + 1].kind = "reset"
           /\ Len(states) >= 1 => states[1].kind = "reset"

C9_Witness ==
    /\ algo = "mpo" /\ op = "train" /\ pc = "st_return"
    /\ sample_episodes = 2 /\ it = 2
    /\ Len(states) = 4
    /\ dones[1] /\ ~dones[2] /\ ~dones[3]

\* C10: from the end of the constructor on, eta is at least the floor 1e-6.
C10_EtaAtLeastFloor ==
    (algo = "mpo" /\ pc \notin {"mpo_ctor_copy", "mpo_ctor_eta"})
        => RLe(EtaFloor, eta)

\* max(0, m - alpha*(eps - c)), written out.
ClampedAscent(m, eps, c) ==
    LET stepped == RAdd(m, RNeg(RMul(Alpha, RAdd(eps, RNeg(c)))))
    IN  IF RLe(RInt(0), stepped) THEN stepped ELSE RInt(0)

MinibatchLen ==
    2 + 2 * lagrange_it

MinibatchOp(j) ==
    IF j = 1 THEN "critic_optimizer.step"
    ELSE IF j = 2 THEN "minimize"
    ELSE IF j % 2 = 1 THEN "multipliers"
    ELSE "actor_optimizer.step"

Occurrences(seq, x) ==
    Cardinality({i \in 1..Len(seq) : seq[i] = x})

MinibatchesPerEpisode ==
    rerun_mb * ((it + mb_size - 1) \div mb_size)

\* C12: the calls MPO.train has made in the running episode are, minibatch
\* after minibatch, one critic optimizer step, one minimization, then
\* lagrange_it times a multiplier update followed by an actor optimizer
\* step, and last the episode's _update_param; the minimization overwrites
\* eta; no step from the minimization to the end of the M-step loop changes
\* the critic; when the episode's updates are over there have been
\* rerun*ceil(episode_length/mb_size) critic steps and minimizations and
\* lagrange_it times as many multiplier updates and actor steps.
C12_MinibatchOrder ==
    /\ [](algo = "mpo" /\ op = "train"
            => /\ \A i \in 1..Len(ops) :
                     \/ ops[i] = MinibatchOp(((i - 1) % MinibatchLen) + 1)
                     \/ /\ i = Len(ops) /\ ops[i] = "update_param"
                        /\ (i - 1) % MinibatchLen = 0
               /\ pc \in {"mpo_save", "mpo_log"}
                     => /\ Occurrences(ops, "critic_optimizer.step")
                             = MinibatchesPerEpisode
                        /\ Occurrences(ops, "minimize") = MinibatchesPerEpisode
                        /\ Occurrences(ops, "multipliers")
                             = lagrange_it * MinibatchesPerEpisode
                        /\ Occurrences(ops, "actor_optimizer.step")
                             = lagrange_it * MinibatchesPerEpisode
                        /\ Occurrences(ops, "update_param") = 1)
    /\ [][/\ (algo = "mpo" /\ pc = "dual")
               => /\ eta' \in MinimizerResults
                  /\ critic' = critic /\ actor' = actor
          /\ (algo = "mpo" /\ pc \in {"multipliers", "mpo_actor_step", "mb_next"})
               => critic' = critic /\ eta' = eta
          /\ (algo = "mpo" /\ pc = "critic_update")
               => critic' # critic /\ actor' = actor]_vars

\* An episode of two passes over three steps in minibatches of two: the
\* second minibatch of each pass is the shorter one.
C12_Witness ==
    /\ algo = "mpo" /\ op = "train" /\ pc = "mpo_save"
    /\ it = 3 /\ mb_size = 2 /\ rerun_mb = 2
    /\ Occurrences(ops, "critic_optimizer.step") = 4
    /\ Occurrences(ops, "actor_optimizer.step") = 4

\* The positions of MPO.train between the start of an episode and its
\* _update_param.
EpisodeWork ==
    {"st_begin", "st_reset", "st_step", "st_return", "pass_begin",
     "critic_update", "dual", "multipliers", "mpo_actor_step", "mb_next"}

\* C13: MPO.train hard-copies both targets from the live networks exactly
\* once per episode, when all reruns over all minibatches of the episode are
\* done; no step of the episode's sampling and updates changes a target
\* parameter; right after the copy every target equals its live network,
\* which the copy leaves alone.
C13_HardCopyOncePerEpisode ==
    /\ [](algo = "mpo" /\ op = "train"
            => /\ pc \in EpisodeWork
                     => cnt.update_param = episode - self_episode
               /\ pc \in EpisodeWork \ {"st_begin"}
                     => Occurrences(ops, "update_param") = 0
               /\ pc = "update_param"
                     => /\ cnt.update_param = episode - self_episode
                        /\ Occurrences(ops, "update_param") = 0
                        /\ Occurrences(ops, "critic_optimizer.step")
                             = MinibatchesPerEpisode
                        /\ Occurrences(ops, "actor_optimizer.step")
                             = lagrange_it * MinibatchesPerEpisode
               /\ pc \in {"mpo_save", "mpo_log"}
                     => /\ cnt.update_param = episode - self_episode + 1
                        /\ Occurrences(ops, "update_param") = 1
                        /\ target_actor = actor
                        /\ target_critic = critic
               /\ pc = "mpo_train_end"
                     => cnt.update_param = episode - self_episode)
    /\ [][/\ (algo = "mpo" /\ op = "train" /\ pc \in EpisodeWork)
               => target_actor' = target_actor /\ target_critic' = target_critic
          /\ (algo = "mpo" /\ pc = "update_param")
               => /\ target_actor' = actor /\ target_critic' = critic
                  /\ actor' = actor /\ critic' = critic]_vars

\* The copy of a second episode, the live networks having moved away from
\* the targets during the episode.
C13_Witness ==
    /\ algo = "mpo" /\ op = "train" /\ pc = "update_param"
    /\ cnt.update_param = 1
    /\ rerun_mb = 2
    /\ target_actor # actor
    /\ target_critic # critic

\* C14: save_model writes the object's episode counter, its four networks
\* and its two optimizers, and load_model of that file sets them back, so
\* that save_model followed by load_model leaves the object as it was; the
\* steps between two calls are save_model (the file changes, the object
\* does not) and load_model (the object takes the file's contents).
C14_SaveLoadRoundTrip ==
    [][(pc = "idle" /\ pc' = "idle")
          => \/ /\ disk' # disk
                /\ disk' = [exists |-> TRUE, epoch |-> self_episode,
                            critic |-> critic, target_critic |-> target_critic,
                            actor |-> actor, target_actor |-> target_actor,
                            critic_optim |-> critic_optimizer,
                            actor_optim |-> actor_optimizer]
                /\ UNCHANGED <<nets, opts, self_episode>>
             \/ /\ disk' = disk /\ disk.exists
                /\ self_episode' = disk.epoch
                /\ critic' = disk.critic /\ target_critic' = disk.target_critic
                /\ actor' = disk.actor /\ target_actor' = disk.target_actor
                /\ critic_optimizer' = disk.critic_optim
                /\ actor_optimizer' = disk.actor_optim]_vars

\* C15: when train writes a checkpoint over one that train wrote after
\* fewer completed episodes, the new file's epoch is strictly larger than
\* the old file's.
C15_EpochMonotonic ==
    [][(/\ op = "train" /\ pc \in {"train_end", "mpo_save"} /\ sf
        /\ disk.exists /\ hist.file_by_train
        /\ hist.file_trained < hist'.file_trained)
          => disk'.epoch > disk.epoch]_vars

\* C16: whatever the log flag, a train call ends without an exception,
\* having executed every requested episode with all its update steps.
C16_LogFlagHarmless ==
    (op = "train" /\ pc = "done")
        => /\ raised = "none"
           /\ algo = "ddpg" => episode = ep /\ cnt.soft_update = ep * it
           /\ algo = "mpo"
                 => /\ episode = (IF self_episode < ep THEN ep ELSE self_episode)
                    /\ cnt.update_param = episode - self_episode

\* The minibatches (index sequences) in which transition k of the batch
\* appears, with the position at which it does.
Appearances(k) ==
    {jp \in {<<j, i>> : j \in 1..Len(order), i \in 1..mb_size} :
        /\ jp[2] <= Len(order[jp[1]])
        /\ order[jp[1]][jp[2]] = k}

\* C17: in every rerun pass each of the sample_episodes*episode_length
\* transitions of the collected batch appears in exactly one minibatch of
\* the pass, and no minibatch holds more than mb_size transitions.
C17_MinibatchesPartitionBatch ==
    (algo = "mpo" /\ op = "train"
       /\ pc \in {"critic_update", "dual", "multipliers", "mpo_actor_step",
                  "mb_next"})
        => /\ Len(states) = sample_episodes * it
           /\ \A j \in 1..Len(order) : Len(order[j]) \in 1..mb_size
           /\ \A k \in 1..Len(states) : Cardinality(Appearances(k)) = 1

\* The object is as load_model of the checkpoint file leaves it, the file
\* being one that train wrote at the end of an episode of index k >= 1
\* (self.episode is nonzero only after load_model).
ResumedFromTrainCheckpoint ==
    /\ disk.exists /\ hist.file_by_train
    /\ self_episode > 0
    /\ hist.trained = hist.file_trained
    /\ self_episode = disk.epoch
    /\ critic = disk.critic /\ target_critic = disk.target_critic
    /\ actor = disk.actor /\ target_actor = disk.target_actor
    /\ critic_optimizer = disk.critic_optim
    /\ actor_optimizer = disk.actor_optim

\* C18: a train call on an object loaded from the checkpoint that train
\* wrote at the end of episode index k starts with episode index k + 1.
C18_ResumeDoesNotRepeat ==
    (algo = "mpo" /\ op = "train" /\ pc = "st_begin"
       /\ cnt.update_param = 0 /\ ResumedFromTrainCheckpoint)
        => episode = disk.epoch + 1

====
